---- MODULE Spec2Model ----
(***************************************************************************)
(* Model of the conversation-history indexer: claude_history.py (index     *)
(* command, batch of 50 files per commit) and history_index.py (same       *)
(* pipeline, batch of 100).  A run walks the discovered *.jsonl files,     *)
(* parses each file in memory, then upserts its sessions and inserts its   *)
(* messages; an AFTER INSERT trigger writes the full-text index.           *)
(*                                                                         *)
(* Text is a sequence of one-character strings, so that joining and        *)
(* truncation are computed.  Timestamps are naturals ordered as the        *)
(* sortable date-time strings are.                                         *)
(***************************************************************************)
EXTENDS Integers, Sequences, FiniteSets, Bags, TLC

\* ------------------------------------------------------------------ bounds
MaxBlocks == 3     \* blocks of a content array
LongBlocks == 2    \* blocks of a content array with long tool results
MaxLines == 2      \* lines per file
MaxPasses == 2     \* files indexed over all runs of the index command
BatchSize == 1     \* files per commit; stands for 50 (claude_history.py:213)
                   \* and 100 (history_index.py:189), scaled down
BatchSizeHi == 2 * BatchSize
                   \* files per commit of history_index.py: twice as many
PairFiles == 2     \* files discovered, runs of both indexers
ResumeLines == 1   \* lines per file, replayed runs
ResumeFiles == 2   \* files discovered, replayed runs
ResumeRuns == 2    \* runs over the same files, replayed runs
QueryLines == 1    \* lines per file, runs followed by a query
MaxShown == 2      \* largest limit passed to show_session; stands for 50
                   \* (history_search.py:86), scaled down

\* ------------------------------------------------------- program constants
ToolResultLimit == 500
DisplayLimit == 800

\* -------------------------------------------------------------- input data
NL == "\n"
NoMessage == [present |-> FALSE, role |-> "", model |-> "",
              content |-> [isList |-> FALSE, text |-> <<>>, blocks |-> <<>>]]

StrContent(t) == [isList |-> FALSE, text |-> t, blocks |-> <<>>]
ListContent(bs) == [isList |-> TRUE, text |-> <<>>, blocks |-> bs]
Message(r, c, m) == [present |-> TRUE, role |-> r, model |-> m, content |-> c]

\* Blocks of a content array.  isDict is FALSE for an array element that is
\* not an object; rlist is TRUE when a tool_result's content is itself a list
\* (of strings, held in items) rather than a string (held in text).
TextBlock(t) == [isDict |-> TRUE, type |-> "text", text |-> t, name |-> <<>>,
                 rlist |-> FALSE, items |-> <<>>]
ToolUseBlock(n) == [isDict |-> TRUE, type |-> "tool_use", text |-> <<>>, name |-> n,
                    rlist |-> FALSE, items |-> <<>>]
ToolResultBlock(t) == [isDict |-> TRUE, type |-> "tool_result", text |-> t, name |-> <<>>,
                       rlist |-> FALSE, items |-> <<>>]
ToolResultListBlock(its) == [isDict |-> TRUE, type |-> "tool_result", text |-> <<>>,
                             name |-> <<>>, rlist |-> TRUE, items |-> its]
OtherBlock == [isDict |-> TRUE, type |-> "image", text |-> <<>>, name |-> <<>>,
               rlist |-> FALSE, items |-> <<>>]
NonDictBlock == [isDict |-> FALSE, type |-> "", text |-> <<>>, name |-> <<>>,
                 rlist |-> FALSE, items |-> <<>>]

\* ------------------------------------------------------------ text helpers
RECURSIVE Join_NoSeparator(_, _)
\* mutant: the parts are put together with nothing between them
Join_NoSeparator(sep, parts) ==
    IF parts = <<>> THEN <<>>
    ELSE parts[1] \o Join_NoSeparator(sep, Tail(parts))

RECURSIVE Join(_, _)
\* sep.join(parts)
Join(sep, parts) ==
    IF parts = <<>> THEN <<>>
    ELSE IF Len(parts) = 1 THEN parts[1]
    ELSE parts[1] \o sep \o Join(sep, Tail(parts))

\* mutant: the slice keeps one character more
Prefix_OneMore(s, n) == IF Len(s) <= n + 1 THEN s ELSE SubSeq(s, 1, n + 1)
\* s[:n]
Prefix(s, n) == IF Len(s) <= n THEN s ELSE SubSeq(s, 1, n)

RECURSIVE PyReprItems(_)
PyReprItems(its) ==
    IF its = <<>> THEN <<>>
    ELSE <<"'">> \o its[1] \o <<"'">>
         \o (IF Len(its) > 1 THEN <<",", " ">> ELSE <<>>)
         \o PyReprItems(Tail(its))

\* str(x) of a tool_result content: a string is itself, a list of strings
\* is its bracketed repr
PyStr(block) ==
    IF block.rlist THEN <<"[">> \o PyReprItems(block.items) \o <<"]">>
    ELSE block.text

\* ---------------------------------------------------------- extract_content
RECURSIVE ScanBlocks_NamesInText(_, _)
\* mutant: a tool_use block also puts its name into the text
ScanBlocks_NamesInText(blocks, acc) ==
    IF blocks = <<>> THEN acc
    ELSE LET block == Head(blocks)
             next ==
               IF ~block.isDict THEN acc
               ELSE IF block.type = "text"
                 THEN [acc EXCEPT !.text_parts = Append(@, block.text)]
               ELSE IF block.type = "tool_use"
                 THEN [acc EXCEPT !.tool_names = Append(@, block.name),
                                  !.text_parts = Append(@, block.name)]
               ELSE IF block.type = "tool_result"
                 THEN [acc EXCEPT !.text_parts =
                          Append(@, Prefix(PyStr(block), ToolResultLimit))]
               ELSE acc
         IN ScanBlocks_NamesInText(Tail(blocks), next)

RECURSIVE ScanBlocks_DedupNames(_, _)
\* mutant: a tool name already collected is not collected again
ScanBlocks_DedupNames(blocks, acc) ==
    IF blocks = <<>> THEN acc
    ELSE LET block == Head(blocks)
             seen == \E k \in DOMAIN acc.tool_names : acc.tool_names[k] = block.name
             next ==
               IF ~block.isDict THEN acc
               ELSE IF block.type = "text"
                 THEN [acc EXCEPT !.text_parts = Append(@, block.text)]
               ELSE IF block.type = "tool_use"
                 THEN (IF seen THEN acc
                       ELSE [acc EXCEPT !.tool_names = Append(@, block.name)])
               ELSE IF block.type = "tool_result"
                 THEN [acc EXCEPT !.text_parts =
                          Append(@, Prefix(PyStr(block), ToolResultLimit))]
               ELSE acc
         IN ScanBlocks_DedupNames(Tail(blocks), next)

RECURSIVE ScanBlocks(_, _)
\* the for-loop over blocks: acc = [text_parts, tool_names]
ScanBlocks(blocks, acc) ==
    IF blocks = <<>> THEN acc
    ELSE LET block == Head(blocks)
             next ==
               IF ~block.isDict THEN acc
               ELSE IF block.type = "text"
                 THEN [acc EXCEPT !.text_parts = Append(@, block.text)]
               ELSE IF block.type = "tool_use"
                 THEN [acc EXCEPT !.tool_names = Append(@, block.name)]
               ELSE IF block.type = "tool_result"
                 THEN [acc EXCEPT !.text_parts =
                          Append(@, Prefix(PyStr(block), ToolResultLimit))]
               ELSE acc
         IN ScanBlocks(Tail(blocks), next)

extract_content(message_obj) ==
    IF ~message_obj.present
    THEN [content |-> <<>>, model |-> "", tool_names |-> <<>>]
    ELSE IF message_obj.content.isList
    THEN LET r == ScanBlocks(message_obj.content.blocks,
                             [text_parts |-> <<>>, tool_names |-> <<>>])
         IN [content |-> Join(<<NL>>, r.text_parts),
             model |-> message_obj.model,
             tool_names |-> r.tool_names]
    ELSE [content |-> message_obj.content.text,
          model |-> message_obj.model,
          tool_names |-> <<>>]

\* ------------------------------------------------------------- log records
\* One line of a *.jsonl file.  kind: "blank" (empty after strip), "invalid"
\* (json.loads raises JSONDecodeError), "nonobject" (decodes to a JSON value
\* that is not an object), "object" (decodes to an object with the fields
\* below; an absent field reads as "" through entry.get(name, "")).
Entry(t, sid, u, pu, ts, dir, br, msg) ==
    [kind |-> "object", type |-> t, sessionId |-> sid, uuid |-> u, parentUuid |-> pu,
     timestamp |-> ts, cwd |-> dir, gitBranch |-> br, message |-> msg]
Junk(k) == [kind |-> k, type |-> "", sessionId |-> "", uuid |-> "", parentUuid |-> "",
            timestamp |-> 0, cwd |-> "", gitBranch |-> "", message |-> NoMessage]

\* A file: its lines, and whether reading it raises (open fails, or a read
\* fails after the lines have been delivered).
File(ls, err) == [lines |-> ls, io_error |-> err]

AcceptedTypes == {"user", "assistant", "summary"}

\* ---------------------------------------------------------------- index_jsonl
\* the per-session summary created at the first event of a session
NewSummary(entry) ==
    [project |-> entry.cwd, cwd |-> entry.cwd, git_branch |-> entry.gitBranch,
     first_ts |-> entry.timestamp, last_ts |-> entry.timestamp, count |-> 0]

\* mutant: last_ts is set when the summary is created and not afterwards
TrackSession_LastTsOnce(session_data, entry) ==
    LET sid == entry.sessionId
        base == IF sid \in DOMAIN session_data
                THEN session_data
                ELSE [s \in DOMAIN session_data \cup {sid} |->
                        IF s = sid THEN NewSummary(entry) ELSE session_data[s]]
    IN [base EXCEPT ![sid].count = @ + 1]
\* "Track session metadata": session_data after one retained event
TrackSession(session_data, entry) ==
    LET sid == entry.sessionId
        base == IF sid \in DOMAIN session_data
                THEN [session_data EXCEPT ![sid].last_ts = entry.timestamp]
                ELSE [s \in DOMAIN session_data \cup {sid} |->
                        IF s = sid THEN NewSummary(entry) ELSE session_data[s]]
    IN [base EXCEPT ![sid].count = @ + 1]

\* the dict appended to messages for one retained event
MessageOf(entry) ==
    LET x == extract_content(entry.message)
    IN [uuid |-> entry.uuid, session_id |-> entry.sessionId,
        parent_uuid |-> entry.parentUuid, type |-> entry.type,
        role |-> entry.message.role, content |-> x.content,
        timestamp |-> entry.timestamp, model |-> x.model,
        tool_names |-> Join(<<",">>, x.tool_names)]

\* the filters of the read loop: "skip" for continue, "raise" for an
\* exception that leaves the loop, "keep" for a retained event
LineOutcome(line) ==
    IF line.kind = "blank" THEN "skip"
    ELSE IF line.kind = "invalid" THEN "skip"
    ELSE IF line.kind = "nonobject" THEN "raise"
    ELSE IF line.type \notin AcceptedTypes THEN "skip"
    ELSE IF line.sessionId = "" THEN "skip"
    ELSE "keep"

RECURSIVE ScanLines(_, _)
\* the body of the try block: acc = [session_data, messages, raised]
ScanLines(lines, acc) ==
    IF lines = <<>> THEN acc
    ELSE LET line == Head(lines)
             o == LineOutcome(line)
         IN IF o = "raise" THEN [acc EXCEPT !.raised = TRUE]
            ELSE IF o = "skip" THEN ScanLines(Tail(lines), acc)
            ELSE ScanLines(Tail(lines),
                   [acc EXCEPT !.session_data = TrackSession(@, line),
                               !.messages = Append(@, MessageOf(line))])

ReadFile(file) ==
    LET r == ScanLines(file.lines,
                       [session_data |-> <<>>, messages |-> <<>>, raised |-> FALSE])
    IN IF file.io_error THEN [r EXCEPT !.raised = TRUE] ELSE r

\* INSERT INTO sessions ... ON CONFLICT(session_id) DO UPDATE
Max(a, b) == IF a >= b THEN a ELSE b

\* mutant: the conflict clause also moves first_ts back to an earlier
\* incoming one
UpsertSession_MinFirstTs(table, sid, sdata) ==
    IF sid \in DOMAIN table
    THEN [table EXCEPT ![sid].last_ts = Max(@, sdata.last_ts),
                       ![sid].first_ts = IF sdata.first_ts < @ THEN sdata.first_ts ELSE @,
                       ![sid].message_count = @ + sdata.count]
    ELSE [s \in DOMAIN table \cup {sid} |->
            IF s = sid
            THEN [project |-> sdata.project, cwd |-> sdata.cwd,
                  git_branch |-> sdata.git_branch, first_ts |-> sdata.first_ts,
                  last_ts |-> sdata.last_ts, message_count |-> sdata.count]
            ELSE table[s]]
\* mutant: the conflict clause stores the incoming last_ts
UpsertSession_LastWins(table, sid, sdata) ==
    IF sid \in DOMAIN table
    THEN [table EXCEPT ![sid].last_ts = sdata.last_ts,
                       ![sid].message_count = @ + sdata.count]
    ELSE [s \in DOMAIN table \cup {sid} |->
            IF s = sid
            THEN [project |-> sdata.project, cwd |-> sdata.cwd,
                  git_branch |-> sdata.git_branch, first_ts |-> sdata.first_ts,
                  last_ts |-> sdata.last_ts, message_count |-> sdata.count]
            ELSE table[s]]
\* mutant: the conflict clause leaves message_count alone
UpsertSession_KeepsCount(table, sid, sdata) ==
    IF sid \in DOMAIN table
    THEN [table EXCEPT ![sid].last_ts = Max(@, sdata.last_ts)]
    ELSE [s \in DOMAIN table \cup {sid} |->
            IF s = sid
            THEN [project |-> sdata.project, cwd |-> sdata.cwd,
                  git_branch |-> sdata.git_branch, first_ts |-> sdata.first_ts,
                  last_ts |-> sdata.last_ts, message_count |-> sdata.count]
            ELSE table[s]]
UpsertSession(table, sid, sdata) ==
    IF sid \in DOMAIN table
    THEN [table EXCEPT ![sid].last_ts = Max(@, sdata.last_ts),
                       ![sid].message_count = @ + sdata.count]
    ELSE [s \in DOMAIN table \cup {sid} |->
            IF s = sid
            THEN [project |-> sdata.project, cwd |-> sdata.cwd,
                  git_branch |-> sdata.git_branch, first_ts |-> sdata.first_ts,
                  last_ts |-> sdata.last_ts, message_count |-> sdata.count]
            ELSE table[s]]

\* mutant: an UPDATE in place of the upsert, a session not yet stored gets
\* no row
UpsertSessions_OnlyStored(table, session_data) ==
    [s \in DOMAIN table |->
        IF s \in DOMAIN session_data
        THEN UpsertSession(table, s, session_data[s])[s]
        ELSE table[s]]
\* the "Insert sessions" loop; the rows of distinct keys do not interact
UpsertSessions(table, session_data) ==
    [s \in DOMAIN table \cup DOMAIN session_data |->
        IF s \in DOMAIN session_data
        THEN UpsertSession(table, s, session_data[s])[s]
        ELSE table[s]]

\* trigger messages_ai: AFTER INSERT ON messages, one index entry
Posting(row) == [uuid |-> row.uuid, content |-> row.content]
\* mutant: the trigger is missing
messages_ai_Dropped(fts, new) == fts
messages_ai(fts, new) == fts (+) SetToBag({Posting(new)})

\* mutant: the index write does not depend on the insert having added a row
InsertOrIgnore_AlwaysIndexes(store, msg) ==
    [messages |-> [u \in DOMAIN store.messages \cup {msg.uuid} |->
                     IF u \in DOMAIN store.messages THEN store.messages[u] ELSE msg],
     fts |-> store.fts (+) SetToBag({Posting(msg)})]
\* mutant: INSERT OR REPLACE, the later event overwrites the stored row
InsertOrIgnore_Replaces(store, msg) ==
    [messages |-> [u \in DOMAIN store.messages \cup {msg.uuid} |->
                     IF u = msg.uuid THEN msg ELSE store.messages[u]],
     fts |-> store.fts (+) SetToBag({Posting(msg)})]

\* INSERT OR IGNORE INTO messages: a conflict on the primary key uuid leaves
\* the table alone and fires no trigger
InsertOrIgnore(store, msg) ==
    IF msg.uuid \in DOMAIN store.messages
    THEN store
    ELSE [messages |-> [u \in DOMAIN store.messages \cup {msg.uuid} |->
                          IF u = msg.uuid THEN msg ELSE store.messages[u]],
          fts |-> messages_ai(store.fts, msg)]

RECURSIVE InsertMessages(_, _)
\* the "Insert messages" loop
InsertMessages(store, msgs) ==
    IF msgs = <<>> THEN store
    ELSE InsertMessages(InsertOrIgnore(store, Head(msgs)), Tail(msgs))

\* mutant: the handler of a failed read counts the error and falls through
\* to the inserts
index_jsonl_NoReturn(file, db, st) ==
    LET r == ReadFile(file)
        ins == InsertMessages([messages |-> db.messages, fts |-> db.fts], r.messages)
    IN [db |-> [sessions |-> UpsertSessions(db.sessions, r.session_data),
                messages |-> ins.messages,
                fts |-> ins.fts],
        stats |-> IF r.raised THEN [st EXCEPT !.errors = @ + 1]
                  ELSE [st EXCEPT
                          !.sessions = @ + Cardinality(DOMAIN r.session_data),
                          !.messages = @ + Len(r.messages),
                          !.files = @ + 1]]

\* index_jsonl(filepath, conn, stats) on the connection's view db =
\* [sessions, messages, fts]; the result is [db, stats]
index_jsonl(file, db, st) ==
    LET r == ReadFile(file)
    IN  IF r.raised
        THEN [db |-> db, stats |-> [st EXCEPT !.errors = @ + 1]]
        ELSE LET ins == InsertMessages([messages |-> db.messages, fts |-> db.fts],
                                       r.messages)
             IN [db |-> [sessions |-> UpsertSessions(db.sessions, r.session_data),
                         messages |-> ins.messages,
                         fts |-> ins.fts],
                 stats |-> [st EXCEPT
                              !.sessions = @ + Cardinality(DOMAIN r.session_data),
                              !.messages = @ + Len(r.messages),
                              !.files = @ + 1]]

\* index_jsonl of history_index.py (lines 98-175): statement for statement
\* that of claude_history.py, so the read loop, the upsert and the insert
\* above stand for both
hi_index_jsonl(file, db, st) ==
    LET r == ReadFile(file)
    IN  IF r.raised
        THEN [db |-> db, stats |-> [st EXCEPT !.errors = @ + 1]]
        ELSE LET ins == InsertMessages([messages |-> db.messages, fts |-> db.fts],
                                       r.messages)
             IN [db |-> [sessions |-> UpsertSessions(db.sessions, r.session_data),
                         messages |-> ins.messages,
                         fts |-> ins.fts],
                 stats |-> [st EXCEPT
                              !.sessions = @ + Cardinality(DOMAIN r.session_data),
                              !.messages = @ + Len(r.messages),
                              !.files = @ + 1]]

\* ------------------------------------------------------------ input domains
\* Two shapes of event: a user turn with string content, and a later
\* assistant turn in another directory whose content is a block array.
V1 == [type |-> "user", timestamp |-> 1, cwd |-> "/p1", gitBranch |-> "main",
       message |-> Message("user", StrContent(<<"a">>), "")]
V2 == [type |-> "assistant", timestamp |-> 2, cwd |-> "/p2", gitBranch |-> "dev",
       message |-> Message("assistant",
                           ListContent(<<TextBlock(<<"b">>), ToolUseBlock(<<"T">>)>>),
                           "m1")]
UUIDs == {"u1", "u2"}
SessionIds == {"s1", "s2"}
Event(u, sid, v) ==
    Entry(v.type, sid, u, "", v.timestamp, v.cwd, v.gitBranch, v.message)

\* Every two of (uuid, session, shape) occur in all four combinations: a
\* uuid recurs with another session, content and timestamp; a session recurs
\* with another uuid, timestamp and directory.
EventLines ==
    { Event("u1", "s1", V1), Event("u1", "s2", V2),
      Event("u2", "s1", V2), Event("u2", "s2", V1) }

\* lines the read loop does not retain: an object of a type outside the
\* accepted ones, an object without sessionId, a blank line, a line that is
\* not JSON, and a line that is JSON but not an object
FilterLines ==
    { Entry("progress", "s1", "u1", "", 1, "/p1", "main", NoMessage),
      Entry("user", "", "u2", "", 2, "/p2", "dev", NoMessage),
      Junk("blank"), Junk("invalid"), Junk("nonobject") }
FilterEvents == { Event("u1", "s1", V1), Event("u2", "s1", V2) }

SeqsUpTo(S, k) == UNION { [1..m -> S] : m \in 0..k }
Unreadable == File(<<>>, TRUE)
FileSet == { File(ls, FALSE) : ls \in SeqsUpTo(EventLines, MaxLines) } \cup {Unreadable}
\* readable files over all these lines; files whose read fails after
\* events have been read
FailingFiles == { File(ls, TRUE) : ls \in SeqsUpTo(FilterEvents, MaxLines) }
FilterFileSet ==
    { File(ls, FALSE) : ls \in SeqsUpTo(FilterLines \cup FilterEvents, MaxLines) }
    \cup FailingFiles
ResumeFileSet ==
    { File(ls, FALSE) : ls \in SeqsUpTo(EventLines, ResumeLines) } \cup {Unreadable}

\* -------------------------------------------------------------------- state
VARIABLES
    pc,            \* "idle", "loop", "done", "crashed"
    n,             \* len(jsonl_files) of the current run
    i,             \* loop index of cmd_index
    stats,         \* the stats dict of the current run
    sessions,      \* table sessions, as the connection sees it
    messages,      \* table messages, as the connection sees it
    messages_fts,  \* the full-text index, as the connection sees it
    disk,          \* the committed database
    passes,        \* calls of index_jsonl so far, over all runs
    runs,          \* runs started (replayed runs)
    files,         \* the discovered files with their contents (replayed runs)
    indexed,       \* files indexed since the last interruption (replayed runs)
    interrupted,   \* some run was interrupted (replayed runs)
    payload,       \* a message object handed to extract_content
    result,        \* what extract_content returned for it
    query,         \* the arguments of a show_session call
    shown,         \* what show_session returned for them
    hi             \* the process and database of history_index.py

prog == <<pc, n, i, stats, sessions, messages, messages_fts, disk>>
sched == <<passes, runs, files, indexed, interrupted>>
norm == <<payload, result>>
ask == <<query, shown>>
peer == <<hi>>
vars == <<prog, sched, norm, ask, peer>>

ZeroStats == [files |-> 0, sessions |-> 0, messages |-> 0, errors |-> 0]
EmptyDb == [sessions |-> <<>>, messages |-> <<>>, fts |-> EmptyBag]
View == [sessions |-> sessions, messages |-> messages, fts |-> messages_fts]
NoResult == [called |-> FALSE, content |-> <<>>, model |-> "", tool_names |-> <<>>]
NoQuery == [prefix |-> "", limit |-> 0]
HiIdle(db) == [pc |-> "idle", n |-> 0, i |-> 0, stats |-> ZeroStats,
               sessions |-> db.sessions, messages |-> db.messages, fts |-> db.fts,
               disk |-> db]
NoAnswer == [called |-> FALSE, session_id |-> "", rows |-> <<>>, out |-> <<>>]

\* the database file does not exist before the first run
InitProg ==
    /\ pc = "idle" /\ n = 0 /\ i = 0
    /\ stats = ZeroStats
    /\ sessions = <<>> /\ messages = <<>> /\ messages_fts = EmptyBag
    /\ disk = EmptyDb
InitSched ==
    /\ passes = 0 /\ runs = 0 /\ files = <<>> /\ indexed = {} /\ interrupted = FALSE
InitNorm ==
    /\ payload = NoMessage /\ result = NoResult
InitAsk ==
    /\ query = NoQuery /\ shown = NoAnswer
InitHi == hi = HiIdle(EmptyDb)

Init == InitProg /\ InitSched /\ InitNorm /\ InitAsk /\ InitHi

\* ------------------------------------------------------------------ actions
\* cmd_index up to the loop: init_db (CREATE ... IF NOT EXISTS, commit),
\* get_db, fresh stats, the list of files
StartRun(count) ==
    /\ pc \in {"idle", "done", "crashed"}
    /\ pc' = "loop" /\ n' = count /\ i' = 0
    /\ stats' = ZeroStats
    /\ UNCHANGED <<sessions, messages, messages_fts, disk>>

\* conn.commit() every BatchSize files
CommitDue(k) == k % BatchSize = 0

\* one iteration of the loop of cmd_index: the periodic commit, then
\* index_jsonl on the next file, through its return
LoopBody(file) ==
    /\ pc = "loop" /\ i < n
    /\ disk' = IF CommitDue(i) THEN View ELSE disk
    /\ LET r == index_jsonl(file, View, stats)
       IN /\ sessions' = r.db.sessions
          /\ messages' = r.db.messages
          /\ messages_fts' = r.db.fts
          /\ stats' = r.stats
    /\ i' = i + 1
    /\ UNCHANGED <<pc, n>>

\* after the loop: conn.commit(), conn.close()
FinalCommit ==
    /\ pc = "loop" /\ i = n
    /\ disk' = View
    /\ pc' = "done"
    /\ UNCHANGED <<n, i, stats, sessions, messages, messages_fts>>

\* the process is interrupted: the open transaction is rolled back and the
\* process memory is gone.  Commits happen only at the head of an iteration
\* and after the loop, so an interruption inside index_jsonl loses what one
\* right after that call loses.
Crash ==
    /\ pc = "loop"
    /\ pc' = "crashed"
    /\ sessions' = disk.sessions
    /\ messages' = disk.messages
    /\ messages_fts' = disk.fts
    /\ stats' = ZeroStats /\ i' = 0 /\ n' = 0
    /\ UNCHANGED disk

\* ---- any files, read when their turn comes
StartAny ==
    /\ \E count \in 0..(MaxPasses - passes) : StartRun(count)
    /\ UNCHANGED <<sched, norm, ask, peer>>
IndexAny ==
    /\ \E f \in FileSet : LoopBody(f)
    /\ passes' = passes + 1
    /\ UNCHANGED <<runs, files, indexed, interrupted, norm, ask, peer>>
Finish == FinalCommit /\ UNCHANGED <<sched, norm, ask, peer>>
Interrupt == Crash /\ UNCHANGED <<sched, norm, ask, peer>>

Next == StartAny \/ IndexAny \/ Finish \/ Interrupt

Spec == Init /\ [][Next]_vars

\* ---- files that mix unusable lines with events
IndexFiltered ==
    /\ \E f \in FilterFileSet : LoopBody(f)
    /\ passes' = passes + 1
    /\ UNCHANGED <<runs, files, indexed, interrupted, norm, ask, peer>>

NextFilter == StartAny \/ IndexFiltered \/ Finish \/ Interrupt

SpecFilter == Init /\ [][NextFilter]_vars

\* ---- the same files on every run, each run possibly interrupted
InitResume ==
    /\ InitProg /\ InitNorm /\ InitAsk /\ InitHi
    /\ passes = 0 /\ runs = 0 /\ indexed = {} /\ interrupted = FALSE
    /\ files \in [1..ResumeFiles -> ResumeFileSet]

StartListed ==
    /\ runs < ResumeRuns
    /\ StartRun(Len(files))
    /\ runs' = runs + 1
    /\ UNCHANGED <<passes, files, indexed, interrupted, norm, ask, peer>>
IndexListed ==
    /\ i < Len(files)
    /\ LoopBody(files[i + 1])
    /\ indexed' = indexed \cup {files[i + 1]}
    /\ UNCHANGED <<passes, runs, files, interrupted, norm, ask, peer>>
InterruptListed ==
    /\ Crash
    /\ indexed' = {}
    /\ interrupted' = TRUE
    /\ UNCHANGED <<passes, runs, files, norm, ask, peer>>

NextResume == StartListed \/ IndexListed \/ Finish \/ InterruptListed

SpecResume == InitResume /\ [][NextResume]_vars

\* ---- extract_content on its own
BlockSet ==
    { TextBlock(<<"a">>), TextBlock(<<"b", "c">>), TextBlock(<<>>),
      ToolUseBlock(<<"T">>), ToolUseBlock(<<"U">>),
      ToolResultBlock(<<"r">>), ToolResultListBlock(<< <<"x">>, <<"y">> >>),
      OtherBlock, NonDictBlock }
\* tool results around the truncation limit: a string one character short
\* of it, of exactly its length, one character over it, and a list whose
\* str() is over it
LongText(len) == [k \in 1..len |-> IF k % 2 = 1 THEN "p" ELSE "q"]
LongResults ==
    { ToolResultBlock(LongText(ToolResultLimit - 1)),
      ToolResultBlock(LongText(ToolResultLimit)),
      ToolResultBlock(LongText(ToolResultLimit + 1)),
      ToolResultListBlock(<<LongText(ToolResultLimit - 1)>>) }
LongPayloads ==
    { Message("user", ListContent(bs), "") :
        bs \in SeqsUpTo(LongResults \cup {TextBlock(<<"a">>)}, LongBlocks) }
Payloads ==
    { Message("assistant", ListContent(bs), "m1") : bs \in SeqsUpTo(BlockSet, MaxBlocks) }
    \cup { Message("user", StrContent(t), "") : t \in {<<>>, <<"a">>, <<"a", NL, "b">>} }
    \cup { NoMessage }
    \cup LongPayloads

InitExtract ==
    /\ InitProg /\ InitSched /\ InitAsk /\ InitHi
    /\ payload \in Payloads /\ result = NoResult

Normalize ==
    /\ ~result.called
    /\ LET x == extract_content(payload)
       IN result' = [called |-> TRUE, content |-> x.content, model |-> x.model,
                     tool_names |-> x.tool_names]
    /\ UNCHANGED <<prog, sched, payload, ask, peer>>

NextNorm == Normalize

SpecNorm == InitExtract /\ [][NextNorm]_vars

\* ---- show_session (history_search.py); cmd_show of claude_history.py runs
\* the same two queries without the LIMIT and prints instead of returning
\* the characters of the session ids and of the prefixes asked for
Spell(w) ==
    CASE w = "s" -> <<"s">>
      [] w = "s1" -> <<"s", "1">>
      [] w = "s2" -> <<"s", "2">>
      [] w = "s10" -> <<"s", "1", "0">>
      [] w = "x" -> <<"x">>
      [] w = "S" -> <<"S">>
      [] w = "_" -> <<"_">>
      [] w = "%" -> <<"%">>
      [] OTHER -> <<>>
ShowPrefixes == {"", "s1", "s10", "x", "S", "_", "%"}
ShowLimits == 0..MaxShown

\* LIKE compares ASCII letters without regard to case
Fold(c) == IF c = "S" THEN "s" ELSE c
RECURSIVE Like(_, _)
\* text LIKE pattern: % stands for any run of characters, _ for any one
Like(pattern, text) ==
    IF pattern = <<>> THEN text = <<>>
    ELSE IF Head(pattern) = "%"
      THEN Like(Tail(pattern), text) \/ (text # <<>> /\ Like(pattern, Tail(text)))
    ELSE IF text = <<>> THEN FALSE
    ELSE IF Head(pattern) = "_" THEN Like(Tail(pattern), Tail(text))
    ELSE Fold(Head(pattern)) = Fold(Head(text)) /\ Like(Tail(pattern), Tail(text))

\* SELECT ... FROM sessions WHERE session_id LIKE prefix || '%'
MatchingSessions(db, prefix) ==
    { s \in DOMAIN db.sessions : Like(Spell(prefix) \o <<"%">>, Spell(s)) }

\* SELECT ... FROM messages WHERE session_id = ? ORDER BY timestamp: the rows
\* of the session in every order the sort allows (rows of equal timestamp
\* come in an order the engine chooses)
SessionRows(db, sid) == { u \in DOMAIN db.messages : db.messages[u].session_id = sid }
OrderedRows(db, sid) ==
    LET U == SessionRows(db, sid)
    IN { [k \in DOMAIN q |-> db.messages[q[k]]] :
           q \in { o \in [1..Cardinality(U) -> U] :
                     /\ \A j, k \in DOMAIN o : j # k => o[j] # o[k]
                     /\ \A j, k \in DOMAIN o :
                           j < k => db.messages[o[j]].timestamp <= db.messages[o[k]].timestamp } }
\* LIMIT ?
Limited(rows, limit) == IF Len(rows) <= limit THEN rows ELSE SubSeq(rows, 1, limit)

\* the pieces of the returned string, in order
PathName(path) ==
    CASE path = "/p1" -> "p1" [] path = "/p2" -> "p2" [] path = "" -> "?" [] OTHER -> path
Upper(w) ==
    CASE w = "user" -> "USER" [] w = "assistant" -> "ASSISTANT"
      [] w = "summary" -> "SUMMARY" [] OTHER -> w
Displayed(content) ==
    IF Len(content) > DisplayLimit
    THEN SubSeq(content, 1, DisplayLimit) \o <<"...">> ELSE content
NotFoundText(prefix) == <<"No session found matching '", prefix, "'">>
HeaderText(session) ==
    <<"Session in ", PathName(session.project), " (",
      IF session.git_branch = "" THEN "-" ELSE session.git_branch, "):\n">>
MessageText(m) ==
    <<"**", Upper(IF m.role = "" THEN m.type ELSE m.role), "**: ">>
    \o Displayed(m.content) \o <<NL>>
SessionText(session, rows) ==
    Join(<<NL>>, <<HeaderText(session)>> \o [k \in DOMAIN rows |-> MessageText(rows[k])])

\* show_session(session_prefix, limit) on the committed database: every
\* result the two queries can give.  fetchone() takes the first matching
\* session in the order the engine returns them, which the query leaves open.
show_session(prefix, limit, db) ==
    IF MatchingSessions(db, prefix) = {}
    THEN { [called |-> TRUE, session_id |-> "", rows |-> <<>>,
            out |-> NotFoundText(prefix)] }
    ELSE UNION { { [called |-> TRUE, session_id |-> s, rows |-> Limited(rows, limit),
                    out |-> SessionText(db.sessions[s], Limited(rows, limit))] :
                   rows \in OrderedRows(db, s) } :
                 s \in MatchingSessions(db, prefix) }

QueryFileSet ==
    { File(ls, FALSE) : ls \in SeqsUpTo(EventLines, QueryLines) } \cup {Unreadable}

\* a query is a process of its own that reads the committed database, after
\* init_db has created the tables.  It changes nothing, so a behaviour ends
\* with its query: what the indexer does after it is in Spec already.
StartAsked == ~shown.called /\ StartAny
IndexAsked ==
    /\ ~shown.called
    /\ \E f \in QueryFileSet : LoopBody(f)
    /\ passes' = passes + 1
    /\ UNCHANGED <<runs, files, indexed, interrupted, norm, ask, peer>>
FinishAsked == ~shown.called /\ Finish
InterruptAsked == ~shown.called /\ Interrupt
Show ==
    /\ pc # "idle" /\ ~shown.called
    /\ \E p \in ShowPrefixes, l \in ShowLimits :
          /\ query' = [prefix |-> p, limit |-> l]
          /\ shown' \in show_session(p, l, disk)
    /\ UNCHANGED <<prog, sched, norm, peer>>

NextQuery == StartAsked \/ IndexAsked \/ FinishAsked \/ InterruptAsked \/ Show

SpecQuery == Init /\ [][NextQuery]_vars

\* ---- both indexers, each on its own database, over the same files from
\* the same store: cmd_index of claude_history.py in pc .. disk, main of
\* history_index.py in hi
PairFileSet == { File(<<l>>, FALSE) : l \in EventLines } \cup {Unreadable}
\* the stores a run may start from: none yet, or what an earlier run left
PairSeeds ==
    {EmptyDb} \cup { index_jsonl(f, EmptyDb, ZeroStats).db : f \in PairFileSet }

InitPair ==
    /\ InitNorm /\ InitAsk
    /\ passes = 0 /\ runs = 0 /\ indexed = {} /\ interrupted = FALSE
    /\ files \in [1..PairFiles -> PairFileSet]
    /\ pc = "idle" /\ n = 0 /\ i = 0 /\ stats = ZeroStats
    /\ \E seed \in PairSeeds :
          /\ sessions = seed.sessions /\ messages = seed.messages
          /\ messages_fts = seed.fts /\ disk = seed
          /\ hi = HiIdle(seed)

StartPaired ==
    /\ pc = "idle"
    /\ StartRun(Len(files))
    /\ UNCHANGED <<sched, norm, ask, peer>>
IndexPaired ==
    /\ i < Len(files)
    /\ LoopBody(files[i + 1])
    /\ UNCHANGED <<sched, norm, ask, peer>>

HiView == [sessions |-> hi.sessions, messages |-> hi.messages, fts |-> hi.fts]
\* conn.commit() every BatchSizeHi files
HiCommitDue(k) == k % BatchSizeHi = 0
\* main up to the loop
HiStart ==
    /\ hi.pc = "idle"
    /\ hi' = [hi EXCEPT !.pc = "loop", !.n = Len(files), !.i = 0, !.stats = ZeroStats]
    /\ UNCHANGED <<prog, sched, norm, ask>>
\* one iteration of the loop of main
HiLoopBody ==
    /\ hi.pc = "loop" /\ hi.i < hi.n
    /\ LET r == hi_index_jsonl(files[hi.i + 1], HiView, hi.stats)
       IN hi' = [hi EXCEPT !.disk = IF HiCommitDue(hi.i) THEN HiView ELSE @,
                           !.sessions = r.db.sessions,
                           !.messages = r.db.messages,
                           !.fts = r.db.fts,
                           !.stats = r.stats,
                           !.i = @ + 1]
    /\ UNCHANGED <<prog, sched, norm, ask>>
\* mutant: the run ends without the commit after the loop
HiFinalCommit_Missing ==
    /\ hi.pc = "loop" /\ hi.i = hi.n
    /\ hi' = [hi EXCEPT !.pc = "done"]
    /\ UNCHANGED <<prog, sched, norm, ask>>
\* after the loop: conn.commit(), conn.close()
HiFinalCommit ==
    /\ hi.pc = "loop" /\ hi.i = hi.n
    /\ hi' = [hi EXCEPT !.disk = HiView, !.pc = "done"]
    /\ UNCHANGED <<prog, sched, norm, ask>>

NextPair == StartPaired \/ IndexPaired \/ Finish \/ HiStart \/ HiLoopBody \/ HiFinalCommit

SpecPair == InitPair /\ [][NextPair]_vars

\* ================================================================= claims

\* ---- replayed runs: the step that runs index_jsonl on files[i + 1]
IndexStep == pc = "loop" /\ i < n /\ i' = i + 1

\* ---- C1
EntriesFor(fts, u) == { p \in BagToSet(fts) : p.uuid = u }
Bijective(db) ==
    /\ \A u \in DOMAIN db.messages :
          \E p \in EntriesFor(db.fts, u) :
             EntriesFor(db.fts, u) = {p} /\ CopiesIn(p, db.fts) = 1
    /\ \A p \in BagToSet(db.fts) : p.uuid \in DOMAIN db.messages
\* C1: in every state, in the connection's view and in the committed
\* database, each stored message uuid has exactly one full-text index entry
\* and each index entry's uuid is a stored message uuid.
C1_IndexBijection == Bijective(View) /\ Bijective(disk)
\* an insert attempt of this run was ignored (more attempts than rows)
C1_Witness ==
    /\ stats.messages > Cardinality(DOMAIN messages)
    /\ Cardinality(DOMAIN messages) = 2
    /\ Cardinality(DOMAIN disk.messages) >= 1

\* ---- C2
\* C2: a pass over a file already indexed (earlier in this run or in an
\* earlier run, with no interruption since) leaves the messages table and the
\* full-text index exactly as they were.
C2_ReindexChangesNothing ==
    [][(IndexStep /\ files[i + 1] \in indexed) =>
          (messages' = messages /\ messages_fts' = messages_fts)]_vars
\* a second complete run over the same files has ended, with rows stored
C2_Witness ==
    /\ pc = "done" /\ runs = 2 /\ ~interrupted
    /\ Cardinality(DOMAIN messages) = 2
    /\ stats.messages = 2

\* ---- C3
\* C3: no step changes a field of a stored message row; a row leaves the
\* table only when an interruption rolls back its insertion.
C3_MessagesImmutable ==
    [][\A u \in DOMAIN messages :
          /\ u \in DOMAIN messages' \/ pc' = "crashed"
          /\ u \in DOMAIN messages' => messages'[u] = messages[u]]_vars
\* u1 is stored as first inserted (session s1, content "a") although session
\* s2 was opened by the event that carries u1 with another session, content
\* and timestamp
C3_Witness ==
    /\ "u1" \in DOMAIN messages /\ messages["u1"].content = <<"a">>
    /\ messages["u1"].session_id = "s1"
    /\ "s2" \in DOMAIN sessions /\ sessions["s2"].cwd = "/p2"

\* ---- C4
NewRows == DOMAIN messages' \ DOMAIN messages
\* C4: in every step that is not a rollback, the index gains exactly one
\* entry (uuid, content) for each message row the step adds and nothing
\* else, so an insert attempt that adds no row writes nothing to the index.
C4_IndexWriteIffInserted ==
    [][pc' # "crashed" =>
          messages_fts' = messages_fts (+) SetToBag({ Posting(messages'[u]) : u \in NewRows })]_vars
\* a pass added a row and ignored another attempt: three attempts in this
\* run, two rows, two index entries
C4_Witness ==
    /\ stats.messages = 3
    /\ Cardinality(DOMAIN messages) = 2
    /\ BagCardinality(messages_fts) = 2

\* ---- C5
\* events of the file that the read loop retains for session s; none when
\* the read fails
RetainedFor(f, s) ==
    IF f.io_error \/ \E k \in DOMAIN f.lines : f.lines[k].kind = "nonobject"
    THEN 0
    ELSE Cardinality({ k \in DOMAIN f.lines :
                         /\ f.lines[k].kind = "object"
                         /\ f.lines[k].type \in AcceptedTypes
                         /\ f.lines[k].sessionId = s })
StoredCount(table, s) == IF s \in DOMAIN table THEN table[s].message_count ELSE 0
RowsOf(s) == { u \in DOMAIN messages : messages[u].session_id = s }
\* C5: every pass over a file adds to each session's message_count the
\* number of events the pass retained for that session, on the first pass
\* and on every later pass over the same file alike.
C5_CountAddsPerPass ==
    [][IndexStep =>
          \A s \in SessionIds :
             StoredCount(sessions', s) =
                StoredCount(sessions, s) + RetainedFor(files[i + 1], s)]_vars
\* after two complete runs over the same files a session counts twice the
\* events of one run, more than the rows stored for it
C5_Witness ==
    /\ pc = "done" /\ runs = 2 /\ ~interrupted
    /\ \E s \in DOMAIN sessions :
          /\ sessions[s].message_count =
                2 * (RetainedFor(files[1], s) + RetainedFor(files[2], s))
          /\ sessions[s].message_count > Cardinality(RowsOf(s))
          /\ Cardinality(RowsOf(s)) >= 1

\* ---- C6
\* C6: every stored session row has first_ts <= last_ts.
C6_FirstNotAfterLast ==
    \A s \in DOMAIN sessions : sessions[s].first_ts <= sessions[s].last_ts

\* ---- C7
\* a line the claim calls usable: a record of an accepted type with a
\* sessionId
Usable(line) ==
    line.kind = "object" /\ line.type \in AcceptedTypes /\ line.sessionId # ""
UsableOnly(f) == File(SelectSeq(f.lines, Usable), FALSE)
ReadableFiles == { f \in FilterFileSet : ~f.io_error }
\* C7: a pass over a readable file counts no error and stores exactly what a
\* pass over its usable lines alone would store, whatever the other lines are.
C7_FilterNeverAborts ==
    [][\A f \in ReadableFiles :
          LoopBody(f) =>
             /\ stats'.errors = stats.errors
             /\ View' = index_jsonl(UsableOnly(f), View, stats).db]_vars

\* ---- C8
\* C8: a pass over a file whose read fails adds one to the error counter,
\* leaves every other counter, the sessions, the messages and the index as
\* they were, and leaves the loop at the next file.
C8_FailedReadIsolated ==
    [][\A f \in FailingFiles :
          LoopBody(f) =>
             /\ stats' = [stats EXCEPT !.errors = @ + 1]
             /\ sessions' = sessions /\ messages' = messages
             /\ messages_fts' = messages_fts
             /\ pc' = "loop" /\ i' = i + 1 /\ n' = n]_vars
\* the first file of a run failed and the second one stored rows
C8_Witness ==
    /\ pc = "loop" /\ i = 2
    /\ stats.errors = 1 /\ stats.files = 1
    /\ disk.messages = <<>> /\ messages # <<>>

\* ---- C9
RECURSIVE RunFrom(_, _)
\* the stores after index_jsonl on each file in order, nothing interrupting
RunFrom(db, fs) ==
    IF fs = <<>> THEN db
    ELSE RunFrom(index_jsonl(Head(fs), db, ZeroStats).db, Tail(fs))
\* C9: when a run completes after an earlier run over the same files was
\* interrupted, the messages table and the full-text index, in the
\* connection's view and on disk, equal those of one uninterrupted run from
\* the empty database.
C9_ResumeConverges ==
    (pc = "done" /\ interrupted) =>
       LET ref == RunFrom(EmptyDb, files)
       IN /\ messages = ref.messages /\ messages_fts = ref.fts
          /\ disk.messages = ref.messages /\ disk.fts = ref.fts
\* a run completed after an interruption, with rows stored
C9_Witness ==
    /\ pc = "done" /\ interrupted
    /\ Cardinality(DOMAIN messages) = 2

\* ---- C10
Contributes(b) == b.isDict /\ b.type \in {"text", "tool_result"}
Contribution(b) == IF b.type = "text" THEN b.text ELSE Prefix(PyStr(b), ToolResultLimit)
PartsOf(blocks) ==
    LET sel == SelectSeq(blocks, Contributes)
    IN [k \in DOMAIN sel |-> Contribution(sel[k])]
RECURSIVE Offset(_, _)
\* characters before part k in the joined text
Offset(parts, k) ==
    IF k = 1 THEN 0 ELSE Offset(parts, k - 1) + Len(parts[k - 1]) + 1
IsJoined(text, parts) ==
    IF parts = <<>> THEN text = <<>>
    ELSE /\ Len(text) = Offset(parts, Len(parts)) + Len(parts[Len(parts)])
         /\ \A k \in DOMAIN parts :
               /\ SubSeq(text, Offset(parts, k) + 1, Offset(parts, k) + Len(parts[k]))
                     = parts[k]
               /\ k < Len(parts) => text[Offset(parts, k) + Len(parts[k]) + 1] = NL
\* C10: for a content array, the text returned is the contributions of its
\* text and tool_result blocks, in array order, with one newline between
\* consecutive contributions; tool_use blocks, blocks of other types and
\* elements that are not objects put nothing into the text.
C10_TextIsJoinedContributions ==
    (result.called /\ payload.present /\ payload.content.isList) =>
       IsJoined(result.content, PartsOf(payload.content.blocks))
\* text, tool_use, tool_result in one array
C10_Witness ==
    /\ result.called
    /\ payload.content.blocks =
          <<TextBlock(<<"a">>), ToolUseBlock(<<"T">>), ToolResultBlock(<<"r">>)>>
    /\ result.content = <<"a", NL, "r">>

\* ---- C11
TextOnly(p) ==
    /\ p.present /\ p.content.isList
    /\ \A k \in DOMAIN p.content.blocks :
          p.content.blocks[k].isDict /\ p.content.blocks[k].type = "text"
TextsOf(blocks) == [k \in DOMAIN blocks |-> blocks[k].text]
RECURSIVE Concat(_)
Concat(parts) == IF parts = <<>> THEN <<>> ELSE Head(parts) \o Concat(Tail(parts))
\* C11 as stated: for a content array of text blocks only, the text returned
\* is the blocks' texts one after another with nothing between them.
C11_TextOnlyConcatenated ==
    (result.called /\ TextOnly(payload)) =>
       result.content = Concat(TextsOf(payload.content.blocks))
\* C11, amended: for a content array of text blocks only, the text returned
\* is the blocks' texts verbatim in array order with exactly one newline
\* between consecutive texts; for a single block it is that block's text.
C11_TextOnlyJoined ==
    (result.called /\ TextOnly(payload)) =>
       LET texts == TextsOf(payload.content.blocks)
       IN /\ IsJoined(result.content, texts)
          /\ Len(texts) = 1 => result.content = texts[1]
          /\ Len(texts) >= 1 =>
                Len(result.content) = Len(Concat(texts)) + Len(texts) - 1
\* three text blocks, one of them empty, joined by two newlines
C11_Witness ==
    /\ result.called
    /\ payload.content.blocks =
          <<TextBlock(<<"a">>), TextBlock(<<>>), TextBlock(<<"b", "c">>)>>
    /\ result.content = <<"a", NL, NL, "b", "c">>

\* ---- C12
IsToolUse(b) == b.isDict /\ b.type = "tool_use"
NamesOf(blocks) ==
    LET sel == SelectSeq(blocks, IsToolUse)
    IN [k \in DOMAIN sel |-> sel[k].name]
\* C12: the tool names returned are the names of the payload's tool_use
\* blocks, one per block, in array order, a repeated name kept as often as
\* it occurs, whatever other blocks stand between them; a payload whose
\* content is not an array has none.
C12_ToolNamesInBlockOrder ==
    result.called =>
       result.tool_names =
          (IF payload.present /\ payload.content.isList
           THEN NamesOf(payload.content.blocks) ELSE <<>>)
\* the same tool used twice with a text block between
C12_Witness ==
    /\ result.called
    /\ payload.content.blocks =
          <<ToolUseBlock(<<"T">>), TextBlock(<<"a">>), ToolUseBlock(<<"T">>)>>
    /\ result.tool_names = << <<"T">>, <<"T">> >>

\* ---- C13
\* what the claim says a tool_result block contributes
FirstChars(s) ==
    IF Len(s) > ToolResultLimit THEN [k \in 1..ToolResultLimit |-> s[k]] ELSE s
ClaimedPartsOf(blocks) ==
    LET sel == SelectSeq(blocks, Contributes)
    IN [k \in DOMAIN sel |->
          IF sel[k].type = "tool_result" THEN FirstChars(PyStr(sel[k])) ELSE sel[k].text]
\* C13: in the text returned for a content array, the contribution of a
\* tool_result block is the first 500 characters of str(content) when that
\* is longer than 500 characters and the whole of it otherwise; a payload
\* of one tool_result block returns exactly that contribution.
C13_ToolResultTruncated ==
    (result.called /\ payload.present /\ payload.content.isList) =>
       LET blocks == payload.content.blocks
       IN /\ IsJoined(result.content, ClaimedPartsOf(blocks))
          /\ (Len(blocks) = 1 /\ blocks[1].isDict /\ blocks[1].type = "tool_result") =>
                /\ result.content = FirstChars(PyStr(blocks[1]))
                /\ Len(result.content) <= ToolResultLimit
\* a result of 501 characters cut to 500, followed by one of 500 kept whole
C13_Witness ==
    /\ result.called
    /\ payload.content.blocks =
          <<ToolResultBlock(LongText(ToolResultLimit + 1)),
            ToolResultBlock(LongText(ToolResultLimit))>>
    /\ Len(result.content) = 2 * ToolResultLimit + 1
    /\ result.content[ToolResultLimit + 1] = NL

\* ---- C14
StartsWith(text, prefix) ==
    /\ Len(prefix) <= Len(text)
    /\ SubSeq(text, 1, Len(prefix)) = prefix
NoneStartsWith(db, prefix) ==
    \A s \in DOMAIN db.sessions : ~StartsWith(Spell(s), Spell(prefix))
\* C14: when no stored session id starts with the prefix asked for (none is
\* stored, or none begins with these characters), show_session returns the
\* not-found text, and that text differs from the text returned for every
\* stored session shown without messages.
C14_NotFoundWhenNoPrefixMatch ==
    (shown.called /\ NoneStartsWith(disk, query.prefix)) =>
       /\ shown.out = NotFoundText(query.prefix)
       /\ \A s \in DOMAIN disk.sessions :
             shown.out # SessionText(disk.sessions[s], <<>>)

\* ---- C18
\* C18: when show_session returns messages, they are rows of one stored
\* session whose id begins with the characters of the prefix asked for, in
\* ascending order of timestamp, and no more than limit of them.
C18_ShownSessionHasPrefix ==
    (shown.called /\ shown.rows # <<>>) =>
       /\ shown.session_id \in DOMAIN disk.sessions
       /\ StartsWith(Spell(shown.session_id), Spell(query.prefix))
       /\ \A k \in DOMAIN shown.rows :
             /\ shown.rows[k].uuid \in DOMAIN disk.messages
             /\ disk.messages[shown.rows[k].uuid] = shown.rows[k]
             /\ shown.rows[k].session_id = shown.session_id
       /\ \A j, k \in DOMAIN shown.rows :
             j < k => shown.rows[j].timestamp <= shown.rows[k].timestamp
       /\ Len(shown.rows) <= query.limit

\* ---- C15
\* the events of session s a pass over file f retains, in file order
KeptOf(f, s) == SelectSeq(f.lines, LAMBDA l : Usable(l) /\ l.sessionId = s)
SeenIn(f) == { s \in SessionIds : KeptOf(f, s) # <<>> }
Readable(F) == { f \in F : ~f.io_error }
\* C15: a pass over a readable file into an empty store leaves one row for
\* each session the file has retained events of, with first_ts the timestamp
\* of the first of them in file order, last_ts that of the last, and
\* message_count their number.
C15_SinglePassAggregation ==
    [][(sessions = <<>> /\ messages = <<>> /\ IndexStep) =>
          \A f \in Readable(FileSet) :
             LoopBody(f) =>
                /\ DOMAIN sessions' = SeenIn(f)
                /\ \A s \in SeenIn(f) :
                      LET kept == KeptOf(f, s)
                      IN /\ sessions'[s].first_ts = kept[1].timestamp
                         /\ sessions'[s].last_ts = kept[Len(kept)].timestamp
                         /\ sessions'[s].message_count = Len(kept)]_vars
\* one pass over a file with two events of s1 at timestamps 1 < 2
C15_Witness ==
    /\ passes = 1 /\ stats.files = 1
    /\ "s1" \in DOMAIN sessions
    /\ sessions["s1"].first_ts = 1 /\ sessions["s1"].last_ts = 2
    /\ sessions["s1"].message_count = 2

\* ---- C16
\* the last_ts of the summary a pass over f builds for session s
IncomingLastTs(f, s) == KeptOf(f, s)[Len(KeptOf(f, s))].timestamp
\* C16: a pass that merges a summary into a stored session leaves last_ts at
\* the larger of the stored and the incoming value; no pass lowers a stored
\* last_ts, and no step at all lowers a committed one.
C16_LastTsMergesByMax ==
    [][/\ \A s \in DOMAIN disk.sessions :
             /\ s \in DOMAIN disk'.sessions
             /\ disk'.sessions[s].last_ts >= disk.sessions[s].last_ts
       /\ IndexStep =>
             \A s \in DOMAIN sessions :
                /\ s \in DOMAIN sessions'
                /\ sessions'[s].last_ts >= sessions[s].last_ts
                /\ (~files[i + 1].io_error /\ s \in SeenIn(files[i + 1])) =>
                      /\ sessions'[s].last_ts >= IncomingLastTs(files[i + 1], s)
                      /\ sessions'[s].last_ts \in
                            {sessions[s].last_ts, IncomingLastTs(files[i + 1], s)}]_vars
\* s1 was stored with last_ts 2, then a pass merged an event of s1 with
\* timestamp 1, and last_ts is still 2
C16_Witness ==
    /\ runs = 1 /\ i = 2
    /\ "s1" \in DOMAIN sessions /\ sessions["s1"].last_ts = 2
    /\ sessions["s1"].first_ts = 2 /\ sessions["s1"].message_count = 2
    /\ "u1" \in DOMAIN messages /\ messages["u1"].session_id = "s1"
    /\ messages["u1"].timestamp = 1

\* ---- C17
SameFrame(a, b) ==
    /\ a.project = b.project /\ a.cwd = b.cwd
    /\ a.git_branch = b.git_branch /\ a.first_ts = b.first_ts
\* C17: a step leaves project, cwd, git_branch and first_ts of every session
\* row that it keeps as they were, in the connection's view and in the
\* committed database, whatever the events of the pass carry; and a pass
\* that fills a store without sessions takes these four from the first
\* retained event of each session in the file, not from the later ones.
C17_SessionFrame ==
    [][/\ \A s \in DOMAIN sessions \cap DOMAIN sessions' :
             SameFrame(sessions'[s], sessions[s])
       /\ \A s \in DOMAIN disk.sessions :
             s \in DOMAIN disk'.sessions /\ SameFrame(disk'.sessions[s], disk.sessions[s])
       /\ (IndexStep /\ sessions = <<>>) =>
             \A f \in Readable(FileSet) :
                LoopBody(f) =>
                   \A s \in DOMAIN sessions' :
                      LET first == KeptOf(f, s)[1]
                      IN /\ sessions'[s].project = first.cwd
                         /\ sessions'[s].cwd = first.cwd
                         /\ sessions'[s].git_branch = first.gitBranch
                         /\ sessions'[s].first_ts = first.timestamp]_vars
\* s1 was created from an event at timestamp 2 in /p2 on dev; an event of
\* s1 at timestamp 1 in /p1 on main was indexed after it
C17_Witness ==
    /\ "s1" \in DOMAIN sessions
    /\ sessions["s1"].cwd = "/p2" /\ sessions["s1"].project = "/p2"
    /\ sessions["s1"].git_branch = "dev" /\ sessions["s1"].first_ts = 2
    /\ "u1" \in DOMAIN messages /\ messages["u1"].session_id = "s1"
    /\ messages["u1"].timestamp = 1

\* ---- C19
Referential(db) ==
    \A u \in DOMAIN db.messages : db.messages[u].session_id \in DOMAIN db.sessions
\* C19: in the committed database, and in the connection's view between
\* passes, the session_id of every message row is the key of a session row.
C19_MessagesReferToSessions == Referential(disk) /\ Referential(View)
\* a periodic commit has stored messages of two sessions while the run goes on
C19_Witness ==
    /\ pc = "loop"
    /\ DOMAIN disk.messages = {"u1", "u2"}
    /\ disk.messages["u1"].session_id # disk.messages["u2"].session_id
    /\ DOMAIN disk.sessions = {"s1", "s2"}

\* ---- C20
CountCoversRows(db) ==
    \A s \in DOMAIN db.sessions :
       db.sessions[s].message_count >=
          Cardinality({ u \in DOMAIN db.messages : db.messages[u].session_id = s })
\* C20: in the committed database, and in the connection's view between
\* passes, the message_count of every session row is at least the number of
\* message rows whose session_id is that session.
C20_CountDominatesRows == CountCoversRows(disk) /\ CountCoversRows(View)
\* committed: s1 counts exactly its two rows, which two passes stored
C20_Witness ==
    /\ passes = 2
    /\ "s1" \in DOMAIN disk.sessions /\ disk.sessions["s1"].message_count = 2
    /\ { u \in DOMAIN disk.messages : disk.messages[u].session_id = "s1" } = {"u1", "u2"}
    /\ stats.messages = 1

\* ---- C21
\* C21: when both indexers have completed a run over the same files in the
\* same order from the same store, their databases hold the same sessions,
\* messages and index entries, in the connection's view and committed,
\* although they committed after different files on the way.
C21_IndexersAgree ==
    (pc = "done" /\ hi.pc = "done") =>
       /\ sessions = hi.sessions /\ messages = hi.messages /\ messages_fts = hi.fts
       /\ disk = hi.disk
       /\ disk = View
\* both runs are complete, each over two readable files, with two messages
\* of two sessions committed
C21_Witness ==
    /\ pc = "done" /\ hi.pc = "done"
    /\ stats.files = 2 /\ hi.stats.files = 2
    /\ Cardinality(DOMAIN hi.disk.messages) = 2
    /\ Cardinality(DOMAIN hi.disk.sessions) = 2
====
